---- MODULE Spec2Model ----
(***************************************************************************)
(* The cellular-automaton programs of src/0-games/0-automata:              *)
(*   "life"  game-of-life.py           sparse Life (a set of coordinates)  *)
(*   "brain" game-of-brians-brain.py   sparse Brian's Brain (a dict)       *)
(*   "wire"  game-of-wireworld.py      sparse Wireworld (a dict, 0..3)     *)
(*   "wire1" game-of-wireworld1.py     Wireworld with a dense scan         *)
(*   "dense" game-of-life-deepseek.py  Life on a list of lists             *)
(* One behaviour runs one program on one terminal size.  A dict is a       *)
(* function with a finite domain of <<y, x>> pairs; a Python set is a set. *)
(* One action is one iteration of a program's main loop: render, read a    *)
(* key, handle it, and step when running.                                  *)
(***************************************************************************)
EXTENDS Integers, Sequences, FiniteSets, TLC

VARIABLES prog,       \* which program this behaviour runs
          height,     \* rows of the grid (terminal lines - 4)
          width,      \* columns of the grid
          grid,       \* the universe the name `grid` refers to
          cursor_y, cursor_x,
          running,    \* `running` (sparse programs, wire1)
          status,     \* `status` of the dense Life program
          history,    \* `history`: copies of the generations stepped so far
          generation, \* `generation` counter (wire1, dense Life)
          signal,     \* what the last iteration reported to the user
          pc,         \* "loop", "exited" (break), "crashed" (curses error),
                      \* "call"/"returned" (a single call of step)
          last,       \* the call of step made by the last iteration, if any:
                      \* its argument, the argument after the call, the result
          edits,      \* number of editing key presses so far (toggle, place, stamp, state cycling)
          argv,       \* TRUE when the program was started with a file to load
          current_place_state, \* wire1: the state ENTER places
          saved,      \* the save_state call of the last iteration, if any:
                      \* the grid it was called for and the record written
          keyed,      \* the toggle or stamp key read by the last iteration, if
                      \* any: the cursor, the grid before and after its branch
          returned    \* single calls of step: the iteration order and the
                      \* result of each call made on the same universe so far

vars == <<prog, height, width, grid, cursor_y, cursor_x, running, status,
          history, generation, signal, pc, last, edits, argv, current_place_state,
          saved, keyed, returned>>

\* ---------------------------------------------------------------- bounds
MaxDim == 2       \* grid heights and widths 1..MaxDim for single calls and loaded runs
MaxCells == 3     \* stored cells of a universe given to step or loaded from a file
MaxHeight == 1    \* grid heights 1..MaxHeight of the interactive programs
MaxWidth == 2     \* grid widths 1..MaxWidth of the interactive programs
MaxEdits == 2     \* toggles and stamps per run
MaxGen == 2       \* generations stepped per interactive run
MaxRun == 6       \* generations stepped per run started from a file
MaxOrdered == 2   \* stored cells of a universe whose step is called again in every order
MaxScanWidth == 4 \* grid widths 1..MaxScanWidth of the single calls on wider grids
MaxScanCells == 2 \* stored cells of a universe given to step on a wider grid
MaxStray == 1     \* rows and columns outside the grid that a stored coordinate may lie in
MaxStrayCells == 2 \* stored cells of a universe with coordinates outside the grid
MaxSaved == 2     \* stored cells of a universe written to a record
MaxStampWidth == 4 \* grid widths 1..MaxStampWidth of the runs that only stamp
MaxPatternDim == 8 \* grid heights and widths 5..MaxPatternDim of the Blinker and Glider runs

UI_ROWS == 4      \* lines kept below the grid for the help text

Programs == {"life", "brain", "wire", "wire1", "dense"}
Sparse == {"life", "brain", "wire"}

\* ------------------------------------------------------- dict helpers
EmptyDict == [c \in {} |-> 0]

\* dict.get(key, default)
Get(d, c, default) == IF c \in DOMAIN d THEN d[c] ELSE default

\* d[c] = v
Put(d, c, v) == [k \in (DOMAIN d) \cup {c} |-> IF k = c THEN v ELSE d[k]]

\* {k: v for k, v in d.items() if v != x}
Without(d, x) == [k \in {c \in DOMAIN d : d[c] # x} |-> d[k]]

\* list(grid): the elements of a set in some order
RECURSIVE list(_)
list(S) ==
    IF S = {} THEN << >>
    ELSE LET c == CHOOSE c \in S : TRUE IN <<c>> \o list(S \ {c})

\* The stored coordinates of a universe.
Stored(p, U) == IF p = "life" THEN U ELSE DOMAIN U

Cells(h, w) == (0 .. h - 1) \X (0 .. w - 1)

InBounds(c, h, w) == c[1] >= 0 /\ c[1] < h /\ c[2] >= 0 /\ c[2] < w

\* ---------------------------------------------------- neighbourhoods
\* for dy in [-1, 0, 1] for dx in [-1, 0, 1] if (dy, dx) != (0, 0)
Deltas == << <<-1, -1>>, <<-1, 0>>, <<-1, 1>>, <<0, -1>>,
             <<0, 1>>, <<1, -1>>, <<1, 0>>, <<1, 1>> >>

\* get_neighbors without the `% height`, `% width`.
get_neighbors_unwrapped(y, x, h, w) ==
    [i \in 1 .. 8 |-> <<y + Deltas[i][1], x + Deltas[i][2]>>]

\* get_neighbors wrapping the row and leaving the column as it is.
get_neighbors_rows_only(y, x, h, w) ==
    [i \in 1 .. 8 |-> <<(y + Deltas[i][1]) % h, x + Deltas[i][2]>>]

\* get_neighbors of the four dict/set programs: the list of 8 wrapped
\* coordinates (Python's % is non-negative for a positive modulus).
get_neighbors(y, x, h, w) ==
    [i \in 1 .. 8 |-> <<(y + Deltas[i][1]) % h, (x + Deltas[i][2]) % w>>]

\* The coordinates game-of-life-deepseek.py's get_neighbors reads: those of
\* the 8 that pass `0 <= r < rows and 0 <= c < cols`.
dense_neighbor_coords(rows, cols, row, col) ==
    {i \in 1 .. 8 : InBounds(<<row + Deltas[i][1], col + Deltas[i][2]>>, rows, cols)}

\* get_neighbors of game-of-life-deepseek.py: sum of the cells read.
dense_get_neighbors(g, rows, cols, row, col) ==
    Cardinality({i \in dense_neighbor_coords(rows, cols, row, col) :
                    g[<<row + Deltas[i][1], col + Deltas[i][2]>>] = 1})

\* ------------------------------------------------------------- step
\* Each step yields [grid |-> the argument object after the call,
\*                   new_grid |-> the object returned].

\* neighbor_counts keyed by the stored cells alone.
counted_stored_only(cells, h, w) == cells

\* The keys of neighbor_counts: every neighbour of every stored cell.
counted(cells, h, w) ==
    UNION {{get_neighbors(p[1], p[2], h, w)[i] : i \in 1 .. 8} : p \in cells}

\* game-of-life.py: neighbor_counts[c] is incremented once for every
\* (stored cell, neighbour slot) pair that lands on c.
life_count(g, c, h, w) ==
    Cardinality({q \in g \X (1 .. 8) :
                    get_neighbors(q[1][1], q[1][2], h, w)[q[2]] = c})

\* step_life writing the next generation into the set it was given.
step_life_in_place(g, h, w) ==
    LET next == {c \in counted(g, h, w) :
                    LET count == life_count(g, c, h, w)
                    IN  count = 3 \/ (count = 2 /\ c \in g)}
    IN  [grid |-> next, new_grid |-> next]

step_life(g, h, w) ==
    [grid |-> g,
     new_grid |-> {c \in counted(g, h, w) :
                      LET count == life_count(g, c, h, w)
                      IN  count = 3 \/ (count = 2 /\ c \in g)}]

\* game-of-brians-brain.py: neighbor_counts[c] is increased by 1 for every
\* (stored cell, neighbour slot) pair that lands on c whose cell is "ON",
\* and by 0 for the other stored cells.
brain_count(g, c, h, w) ==
    Cardinality({q \in {p \in DOMAIN g : g[p] = "ON"} \X (1 .. 8) :
                    get_neighbors(q[1][1], q[1][2], h, w)[q[2]] = c})

\* step_brain with the birth test `count >= 2` in place of `count == 2`.
step_brain_at_least_two(g, h, w) ==
    LET aged == {c \in DOMAIN g : g[c] \in {"ON", "RECRUITING"}}
        born == {c \in counted(DOMAIN g, h, w) :
                    brain_count(g, c, h, w) >= 2 /\ Get(g, c, "OFF") = "OFF"}
    IN  [grid |-> g,
         new_grid |-> [c \in aged \cup born |->
                          IF c \in born THEN "ON"
                          ELSE IF g[c] = "ON" THEN "RECRUITING" ELSE "OFF"]]

\* step_brain leaving an "ON" cell "ON".
step_brain_on_stays(g, h, w) ==
    LET aged == {c \in DOMAIN g : g[c] \in {"ON", "RECRUITING"}}
        born == {c \in counted(DOMAIN g, h, w) :
                    brain_count(g, c, h, w) = 2 /\ Get(g, c, "OFF") = "OFF"}
    IN  [grid |-> g,
         new_grid |-> [c \in aged \cup born |->
                          IF c \in born \/ g[c] = "ON" THEN "ON" ELSE "OFF"]]

step_brain(g, h, w) ==
    LET aged == {c \in DOMAIN g : g[c] \in {"ON", "RECRUITING"}}
        born == {c \in counted(DOMAIN g, h, w) :
                    brain_count(g, c, h, w) = 2 /\ Get(g, c, "OFF") = "OFF"}
    IN  [grid |-> g,
         new_grid |-> [c \in aged \cup born |->
                          IF c \in born THEN "ON"
                          ELSE IF g[c] = "ON" THEN "RECRUITING" ELSE "OFF"]]

\* game-of-wireworld.py: head_count counts the neighbours whose stored
\* state is 3; a wire that does not become a head gets no new_grid entry.
wire_head_count(g, y, x, h, w) ==
    Cardinality({i \in 1 .. 8 :
                    LET n == get_neighbors(y, x, h, w)[i]
                    IN  n \in DOMAIN g /\ g[n] = 3})

step_wire(g, h, w) ==
    LET aged == {c \in DOMAIN g : g[c] \in {2, 3}}
        fired == {c \in DOMAIN g :
                     /\ g[c] = 1
                     /\ wire_head_count(g, c[1], c[2], h, w) \in {1, 2}}
    IN  [grid |-> g,
         new_grid |-> [c \in aged \cup fired |->
                          IF c \in fired THEN 2
                          ELSE IF g[c] = 2 THEN 3 ELSE 0]]

\* game-of-wireworld1.py
EMPTY == " "
WIRE == "W"
HEAD == "H"
TAIL == "T"

wire1_head_neighbors(g, y, x, h, w) ==
    Cardinality({i \in 1 .. 8 :
                    Get(g, get_neighbors(y, x, h, w)[i], EMPTY) = HEAD})

\* step_wire1 with a TAIL turning into WIRE, as in the textbook rule.
step_wire1_tail_to_wire(g, h, w) ==
    LET known == {pos \in Cells(h, w) :
                     Get(g, pos, EMPTY) \in {HEAD, TAIL, EMPTY, WIRE}}
        new_grid == [pos \in known |->
                        LET current_state == Get(g, pos, EMPTY)
                        IN  IF current_state = HEAD THEN TAIL
                            ELSE IF current_state = TAIL THEN WIRE
                            ELSE IF current_state = EMPTY THEN EMPTY
                            ELSE IF wire1_head_neighbors(g, pos[1], pos[2], h, w) \in {1, 2}
                                 THEN HEAD
                                 ELSE WIRE]
    IN  [grid |-> g, new_grid |-> Without(new_grid, EMPTY)]

\* step_wire1 with a TAIL that stays a TAIL.
step_wire1_tail_stays(g, h, w) ==
    LET known == {pos \in Cells(h, w) :
                     Get(g, pos, EMPTY) \in {HEAD, TAIL, EMPTY, WIRE}}
        new_grid == [pos \in known |->
                        LET current_state == Get(g, pos, EMPTY)
                        IN  IF current_state = HEAD THEN TAIL
                            ELSE IF current_state = TAIL THEN TAIL
                            ELSE IF current_state = EMPTY THEN EMPTY
                            ELSE IF wire1_head_neighbors(g, pos[1], pos[2], h, w) \in {1, 2}
                                 THEN HEAD
                                 ELSE WIRE]
    IN  [grid |-> g, new_grid |-> Without(new_grid, EMPTY)]

step_wire1(g, h, w) ==
    LET known == {pos \in Cells(h, w) :
                     Get(g, pos, EMPTY) \in {HEAD, TAIL, EMPTY, WIRE}}
        new_grid == [pos \in known |->
                        LET current_state == Get(g, pos, EMPTY)
                        IN  IF current_state = HEAD THEN TAIL
                            ELSE IF current_state = TAIL THEN EMPTY
                            ELSE IF current_state = EMPTY THEN EMPTY
                            ELSE IF wire1_head_neighbors(g, pos[1], pos[2], h, w) \in {1, 2}
                                 THEN HEAD
                                 ELSE WIRE]
    IN  [grid |-> g, new_grid |-> Without(new_grid, EMPTY)]

\* game-of-life-deepseek.py: the grid is a full rows x cols table of 0/1.
create_grid(rows, cols) == [c \in Cells(rows, cols) |-> 0]

update_grid(g, rows, cols) ==
    [grid |-> g,
     new_grid |-> [c \in Cells(rows, cols) |->
                      LET neighbors == dense_get_neighbors(g, rows, cols, c[1], c[2])
                      IN  IF g[c] = 1
                          THEN (IF neighbors \in {2, 3} THEN 1 ELSE 0)
                          ELSE (IF neighbors = 3 THEN 1 ELSE 0)]]

\* ------------------------------------------- the loops of the sparse steps
\* The orders in which `for ... in grid` can visit the stored cells.
Perms(S) == {s \in [1 .. Cardinality(S) -> S] : \A i, j \in DOMAIN s : i # j => s[i] # s[j]}

\* counts[n] = counts.get(n, 0) + inc for each n of a neighbour list
RECURSIVE count_up(_, _, _)
count_up(counts, cells, inc) ==
    IF cells = << >> THEN counts
    ELSE count_up(Put(counts, Head(cells), Get(counts, Head(cells), 0) + inc),
                  Tail(cells), inc)

Front(s) == SubSeq(s, 1, Len(s) - 1)

\* game-of-life.py step: neighbor_counts after `for y, x in grid` has
\* visited the cells in the order sigma
RECURSIVE life_neighbor_counts(_, _, _)
life_neighbor_counts(sigma, h, w) ==
    IF sigma = << >> THEN EmptyDict
    ELSE LET c == sigma[Len(sigma)]
         IN  count_up(life_neighbor_counts(Front(sigma), h, w),
                      get_neighbors(c[1], c[2], h, w), 1)

\* step_life_ordered with a loop that stops before the last stored cell.
step_life_skips_last(g, sigma, h, w) ==
    LET neighbor_counts == life_neighbor_counts(Front(sigma), h, w)
    IN  [grid |-> g,
         new_grid |-> {c \in DOMAIN neighbor_counts :
                          \/ neighbor_counts[c] = 3
                          \/ neighbor_counts[c] = 2 /\ c \in g}]

step_life_ordered(g, sigma, h, w) ==
    LET neighbor_counts == life_neighbor_counts(sigma, h, w)
    IN  [grid |-> g,
         new_grid |-> {c \in DOMAIN neighbor_counts :
                          \/ neighbor_counts[c] = 3
                          \/ neighbor_counts[c] = 2 /\ c \in g}]

\* game-of-brians-brain.py step: new_grid and neighbor_counts after the
\* first loop has visited the cells in the order sigma
RECURSIVE brain_first_loop(_, _, _, _)
brain_first_loop(g, sigma, h, w) ==
    IF sigma = << >> THEN [new_grid |-> EmptyDict, neighbor_counts |-> EmptyDict]
    ELSE LET c == sigma[Len(sigma)]
             prev == brain_first_loop(g, Front(sigma), h, w)
         IN  [new_grid |->
                  IF g[c] = "ON" THEN Put(prev.new_grid, c, "RECRUITING")
                  ELSE IF g[c] = "RECRUITING" THEN Put(prev.new_grid, c, "OFF")
                  ELSE prev.new_grid,
              neighbor_counts |->
                  count_up(prev.neighbor_counts, get_neighbors(c[1], c[2], h, w),
                           IF g[c] = "ON" THEN 1 ELSE 0)]

\* The second loop writes "ON" over whatever the first loop stored.
step_brain_ordered(g, sigma, h, w) ==
    LET first == brain_first_loop(g, sigma, h, w)
        born == {c \in DOMAIN first.neighbor_counts :
                    first.neighbor_counts[c] = 2 /\ Get(g, c, "OFF") = "OFF"}
    IN  [grid |-> g,
         new_grid |-> [c \in (DOMAIN first.new_grid) \cup born |->
                          IF c \in born THEN "ON" ELSE first.new_grid[c]]]

\* game-of-wireworld.py step: new_grid after its first loop
RECURSIVE wire_first_loop(_, _)
wire_first_loop(g, sigma) ==
    IF sigma = << >> THEN EmptyDict
    ELSE LET c == sigma[Len(sigma)]
             prev == wire_first_loop(g, Front(sigma))
         IN  IF g[c] = 2 THEN Put(prev, c, 3)
             ELSE IF g[c] = 3 THEN Put(prev, c, 0)
             ELSE prev

\* and after its second loop, which visits the cells in the same order
RECURSIVE wire_second_loop(_, _, _, _, _)
wire_second_loop(g, sigma, all, h, w) ==
    IF sigma = << >> THEN wire_first_loop(g, all)
    ELSE LET c == sigma[Len(sigma)]
             prev == wire_second_loop(g, Front(sigma), all, h, w)
         IN  IF g[c] = 1 /\ wire_head_count(g, c[1], c[2], h, w) \in {1, 2}
             THEN Put(prev, c, 2)
             ELSE prev

step_wire_ordered(g, sigma, h, w) ==
    [grid |-> g, new_grid |-> wire_second_loop(g, sigma, sigma, h, w)]

\* The step function of each program.
step(p, g, h, w) ==
    CASE p = "life" -> step_life(g, h, w)
      [] p = "brain" -> step_brain(g, h, w)
      [] p = "wire" -> step_wire(g, h, w)
      [] p = "wire1" -> step_wire1(g, h, w)
      [] p = "dense" -> update_grid(g, h, w)

\* The step function of each program when its `for ... in grid` loops
\* visit the stored cells in the order sigma; the two dense programs scan
\* range(height) x range(width) whatever the dict holds.
step_ordered(p, g, sigma, h, w) ==
    CASE p = "life" -> step_life_ordered(g, sigma, h, w)
      [] p = "brain" -> step_brain_ordered(g, sigma, h, w)
      [] p = "wire" -> step_wire_ordered(g, sigma, h, w)
      [] p = "wire1" -> step_wire1(g, h, w)
      [] p = "dense" -> update_grid(g, h, w)

Orders(p, g, h, w) ==
    CASE p = "life" -> Perms(g)
      [] p \in {"brain", "wire"} -> Perms(DOMAIN g)
      [] OTHER -> {list(Cells(h, w))}

\* ------------------------------------------------- a single call of step
\* The universes handed to one call: at most MaxCells stored cells, all
\* inside the grid, holding any state the program itself can store there
\* ("OFF" and 0 included: the toggles and steps of brain and wire store them).
SmallSets(h, w) == {S \in SUBSET Cells(h, w) : Cardinality(S) <= MaxCells}

Universes(p, h, w) ==
    CASE p = "life" -> SmallSets(h, w)
      [] p = "brain" -> UNION {[S -> {"ON", "RECRUITING", "OFF"}] : S \in SmallSets(h, w)}
      [] p = "wire" -> UNION {[S -> {0, 1, 2, 3}] : S \in SmallSets(h, w)}
      [] p = "wire1" -> UNION {[S -> {WIRE, HEAD, TAIL}] : S \in SmallSets(h, w)}
      [] p = "dense" -> {[c \in Cells(h, w) |-> IF c \in S THEN 1 ELSE 0] :
                            S \in SmallSets(h, w)}

\* No toggle or stamp key in this iteration.
NoKey == [done |-> FALSE, key |-> "", anchor |-> <<0, 0>>, before |-> {}, after |-> {},
          running |-> FALSE]

Keyed(key, cy, cx, g, g1, run) ==
    [done |-> TRUE, key |-> key, anchor |-> <<cy, cx>>, before |-> g, after |-> g1,
     running |-> run]

\* No save_state call in this iteration.
NoSave == [done |-> FALSE, by |-> "", grid |-> {}, file |-> << >>]

NoCall ==
    LET none == CASE prog = "life" -> {}
                  [] prog = "dense" -> create_grid(height, width)
                  [] OTHER -> EmptyDict
    IN  [stepped |-> FALSE, arg |-> none, after |-> none, ret |-> none]

InitStep ==
    /\ prog \in Programs
    /\ height \in 1 .. MaxDim
    /\ width \in 1 .. MaxDim
    /\ grid \in Universes(prog, height, width)
    /\ cursor_y = height \div 2
    /\ cursor_x = width \div 2
    /\ running = FALSE
    /\ status = "Editing"
    /\ history = << >>
    /\ generation = 0
    /\ signal = [kind |-> "None", n |-> 0]
    /\ pc = "call"
    /\ last = NoCall
    /\ edits = 0
    /\ argv = FALSE
    /\ current_place_state = WIRE
    /\ saved = NoSave
    /\ keyed = NoKey
    /\ returned = << >>

\* new_grid = step(grid, height, width)
CallStep ==
    /\ pc = "call"
    /\ LET r == step(prog, grid, height, width)
       IN  /\ last' = [stepped |-> TRUE, arg |-> grid, after |-> r.grid,
                       ret |-> r.new_grid]
           /\ grid' = r.grid
    /\ returned' = <<[order |-> CHOOSE sigma \in Orders(prog, grid, height, width) : TRUE,
                     new_grid |-> last'.ret]>>
    /\ pc' = "returned"
    /\ UNCHANGED <<prog, height, width, cursor_y, cursor_x, running, status,
                   history, generation, signal, edits, argv, current_place_state,
                   saved, keyed>>

\* A further call of step on the same universe, its loops visiting the
\* stored cells in any order; returned keeps the first call and the latest.
CallAgain ==
    /\ pc = "returned"
    /\ \E sigma \in Orders(prog, last.arg, height, width) :
           LET r == step_ordered(prog, last.arg, sigma, height, width)
           IN  returned' = <<returned[1], [order |-> sigma, new_grid |-> r.new_grid]>>
    /\ UNCHANGED <<prog, height, width, grid, cursor_y, cursor_x, running, status,
                   history, generation, signal, pc, last, edits, argv,
                   current_place_state, saved, keyed>>

NextStep == CallStep

SpecStep == InitStep /\ [][NextStep]_vars

\* Calls repeated in every order, on universes of at most MaxOrdered stored
\* cells (game-of-wireworld1.py and game-of-life-deepseek.py scan the grid
\* in one fixed order).
OrderedUniverses(p, h, w) ==
    {U \in Universes(p, h, w) :
        p \in Sparse => Cardinality(Stored(p, U)) <= MaxOrdered}

InitOrder ==
    /\ InitStep
    /\ grid \in OrderedUniverses(prog, height, width)

NextOrder == CallStep \/ CallAgain

SpecOrder == InitOrder /\ [][NextOrder]_vars

\* Single calls on grids of up to MaxScanWidth columns, where a cell can lie
\* two or more columns away from every stored cell, on universes of at most
\* MaxScanCells stored cells.
ScanSets(h, w) == {S \in SUBSET Cells(h, w) : Cardinality(S) <= MaxScanCells}

ScanUniverses(p, h, w) ==
    CASE p = "life" -> ScanSets(h, w)
      [] p = "brain" -> UNION {[S -> {"ON", "RECRUITING", "OFF"}] : S \in ScanSets(h, w)}
      [] p = "wire" -> UNION {[S -> {0, 1, 2, 3}] : S \in ScanSets(h, w)}
      [] p = "wire1" -> UNION {[S -> {WIRE, HEAD, TAIL}] : S \in ScanSets(h, w)}
      [] p = "dense" -> {[c \in Cells(h, w) |-> IF c \in S THEN 1 ELSE 0] :
                            S \in ScanSets(h, w)}

InitScan ==
    /\ prog \in Programs
    /\ height \in 1 .. MaxDim
    /\ width \in 1 .. MaxScanWidth
    /\ grid \in ScanUniverses(prog, height, width)
    /\ cursor_y = height \div 2
    /\ cursor_x = width \div 2
    /\ running = FALSE
    /\ status = "Editing"
    /\ history = << >>
    /\ generation = 0
    /\ signal = [kind |-> "None", n |-> 0]
    /\ pc = "call"
    /\ last = NoCall
    /\ edits = 0
    /\ argv = FALSE
    /\ current_place_state = WIRE
    /\ saved = NoSave
    /\ keyed = NoKey
    /\ returned = << >>

NextScan == CallStep

SpecScan == InitScan /\ [][NextScan]_vars

\* Single calls of the step of game-of-life.py on universes that may store
\* coordinates outside the grid, negative ones included (step takes any set
\* of pairs: a stamp near an edge, or a file, can store such coordinates).
StrayCells(h, w) == ((0 - MaxStray) .. (h - 1 + MaxStray)) \X ((0 - MaxStray) .. (w - 1 + MaxStray))

\* The sets of at most MaxStrayCells such coordinates.
StrayUniverses(h, w) ==
    {{}} \cup {{t[i] : i \in 1 .. MaxStrayCells} :
                  t \in [1 .. MaxStrayCells -> StrayCells(h, w)]}

InitStray ==
    /\ prog = "life"
    /\ height \in 1 .. MaxDim
    /\ width \in 1 .. MaxDim
    /\ grid \in StrayUniverses(height, width)
    /\ cursor_y = height \div 2
    /\ cursor_x = width \div 2
    /\ running = FALSE
    /\ status = "Editing"
    /\ history = << >>
    /\ generation = 0
    /\ signal = [kind |-> "None", n |-> 0]
    /\ pc = "call"
    /\ last = NoCall
    /\ edits = 0
    /\ argv = FALSE
    /\ current_place_state = WIRE
    /\ saved = NoSave
    /\ keyed = NoKey
    /\ returned = << >>

NextStray == CallStep

SpecStray == InitStray /\ [][NextStray]_vars

TypeStep == pc \in {"call", "returned"}

\* ------------------------------------------------------ rule vocabulary
\* The toroidal Moore neighbour of c in slot i, as the specification gives
\* it: (component + delta + dimension) mod dimension.
Torus(c, i, h, w) ==
    <<(c[1] + Deltas[i][1] + h) % h, (c[2] + Deltas[i][2] + w) % w>>

AllInBounds(S, h, w) == \A c \in S : InBounds(c, h, w)

\* Life: is c alive in universe U of program p
Alive(p, U, c) == IF p = "life" THEN c \in U ELSE (c \in DOMAIN U /\ U[c] = 1)

AliveCount(p, U, c, h, w) ==
    Cardinality({i \in 1 .. 8 : Alive(p, U, Torus(c, i, h, w))})

LifeRule(p, U, V, h, w) ==
    \A c \in Cells(h, w) :
        Alive(p, V, c) <=>
            \/ (Alive(p, U, c) /\ AliveCount(p, U, c, h, w) \in {2, 3})
            \/ (~Alive(p, U, c) /\ AliveCount(p, U, c, h, w) = 3)

SparseLifeRule ==
    (last.stepped /\ prog = "life") =>
        /\ LifeRule(prog, last.arg, last.ret, height, width)
        /\ AllInBounds(last.ret, height, width)

\* Brian's Brain: the state of c, "OFF" when absent.
BrainState(U, c) == Get(U, c, "OFF")

OnCount(U, c, h, w) ==
    Cardinality({i \in 1 .. 8 : BrainState(U, Torus(c, i, h, w)) = "ON"})

WireState(p, U, c) ==
    IF c \notin DOMAIN U THEN EMPTY
    ELSE IF p = "wire"
         THEN (CASE U[c] = 0 -> EMPTY [] U[c] = 1 -> WIRE
                 [] U[c] = 2 -> HEAD [] U[c] = 3 -> TAIL)
         ELSE U[c]

HeadCount(p, U, c, h, w) ==
    Cardinality({i \in 1 .. 8 : WireState(p, U, Torus(c, i, h, w)) = HEAD})

\* C4: Wireworld wire rule -- a WIRE cell is HEAD in the next generation
\* exactly when 1 or 2 of its 8 toroidal neighbours are HEAD, and is still
\* WIRE otherwise; stated for both Wireworld programs.
C4_WireRule ==
    (last.stepped /\ prog \in {"wire", "wire1"}) =>
        \A c \in Cells(height, width) :
            WireState(prog, last.arg, c) = WIRE =>
                WireState(prog, last.ret, c) =
                    (IF HeadCount(prog, last.arg, c, height, width) \in {1, 2}
                     THEN HEAD ELSE WIRE)

\* The wire rule for the dense-scan program alone (game-of-wireworld1.py).
DenseWireRule ==
    (last.stepped /\ prog = "wire1") =>
        \A c \in Cells(height, width) :
            WireState(prog, last.arg, c) = WIRE =>
                WireState(prog, last.ret, c) =
                    (IF HeadCount(prog, last.arg, c, height, width) \in {1, 2}
                     THEN HEAD ELSE WIRE)

NonEmpty(p, U) == {c \in DOMAIN U : WireState(p, U, c) # EMPTY}

\* C5: Wireworld electron rule -- in the next generation every HEAD is
\* TAIL, every TAIL is EMPTY and every EMPTY cell is still EMPTY, so the
\* non-empty coordinates of the result are among those of the argument.
C5_ElectronRule ==
    (last.stepped /\ prog \in {"wire", "wire1"}) =>
        /\ \A c \in Cells(height, width) \cup DOMAIN last.arg \cup DOMAIN last.ret :
              LET was == WireState(prog, last.arg, c)
                  now == WireState(prog, last.ret, c)
              IN  /\ was = HEAD => now = TAIL
                  /\ was = TAIL => now = EMPTY
                  /\ was = EMPTY => now = EMPTY
        /\ NonEmpty(prog, last.ret) \subseteq NonEmpty(prog, last.arg)

\* A HEAD with a WIRE neighbour became TAIL while a TAIL became EMPTY.
C5_Witness ==
    /\ last.stepped /\ prog \in {"wire", "wire1"}
    /\ \E c \in Cells(height, width) :
          /\ WireState(prog, last.arg, c) = HEAD
          /\ WireState(prog, last.ret, c) = TAIL
          /\ \E i \in 1 .. 8 :
                WireState(prog, last.arg, Torus(c, i, height, width)) = WIRE
    /\ \E c \in Cells(height, width) :
          /\ WireState(prog, last.arg, c) = TAIL
          /\ WireState(prog, last.ret, c) = EMPTY
    /\ \E c \in Cells(height, width) :
          /\ WireState(prog, last.arg, c) = EMPTY
          /\ HeadCount(prog, last.arg, c, height, width) \in {1, 2}

\* The coordinates a program's neighbour function reads for cell <<y, x>>,
\* by slot.
neighbor_slots(p, y, x, h, w) ==
    IF p = "dense"
    THEN [i \in dense_neighbor_coords(h, w, y, x) |->
             <<y + Deltas[i][1], x + Deltas[i][2]>>]
    ELSE get_neighbors(y, x, h, w)

ToroidalMoore(p, h, w) ==
    \A c \in Cells(h, w) :
        LET n == neighbor_slots(p, c[1], c[2], h, w)
        IN  /\ DOMAIN n = 1 .. 8
            /\ \A i \in 1 .. 8 : n[i] = Torus(c, i, h, w) /\ InBounds(n[i], h, w)

\* C6: toroidal Moore neighbourhood -- in every program the neighbour
\* function yields the 8 wrapped coordinates, each inside the grid, and in
\* a 10 x 10 universe the neighbours of (0,0) include (9,9), (9,0), (0,9).
C6_ToroidalNeighbors ==
    /\ ToroidalMoore(prog, height, width)
    /\ {<<9, 9>>, <<9, 0>>, <<0, 9>>} \subseteq
          {neighbor_slots(prog, 0, 0, 10, 10)[i] :
              i \in DOMAIN neighbor_slots(prog, 0, 0, 10, 10)}

\* The same for the four programs that share get_neighbors.
WrappingPrograms ==
    prog # "dense" =>
        /\ ToroidalMoore(prog, height, width)
        /\ {<<9, 9>>, <<9, 0>>, <<0, 9>>} \subseteq
              {get_neighbors(0, 0, 10, 10)[i] : i \in 1 .. 8}

\* ------------------------------------------------------------ patterns
\* PATTERNS / SHAPE_DEFINITIONS of each program, by the key that stamps them.
PATTERNS_life ==
    ("1" :> << <<0, 0>>, <<0, 1>>, <<1, 0>>, <<1, 1>> >>)
    @@ ("2" :> << <<0, -1>>, <<0, 0>>, <<0, 1>> >>)
    @@ ("3" :> << <<0, 0>>, <<0, 1>>, <<0, 2>>, <<1, -1>>, <<1, 0>>, <<1, 1>> >>)
    @@ ("4" :> << <<0, 1>>, <<1, 2>>, <<2, 0>>, <<2, 1>>, <<2, 2>> >>)
    @@ ("5" :> << <<0, 1>>, <<0, 4>>, <<1, 0>>, <<2, 0>>, <<2, 4>>, <<3, 0>>, <<3,
            1>>, <<3, 2>>, <<3, 3>> >>)
    @@ ("6" :> << <<0, 1>>, <<0, 5>>, <<1, 0>>, <<2, 0>>, <<2, 5>>, <<3, 0>>, <<3,
            1>>, <<3, 2>>, <<3, 3>>, <<3, 4>> >>)
    @@ ("7" :> << <<0, 1>>, <<0, 6>>, <<1, 0>>, <<2, 0>>, <<2, 6>>, <<3, 0>>, <<3,
            1>>, <<3, 2>>, <<3, 3>>, <<3, 4>>, <<3, 5>> >>)
    @@ ("8" :> << <<0, 2>>, <<0, 3>>, <<0, 4>>, <<0, 8>>, <<0, 9>>, <<0, 10>>, <<2,
            0>>, <<2, 5>>, <<2, 7>>, <<2, 12>>, <<3, 0>>, <<3, 5>>, <<3, 7>>, <<3,
            12>>, <<4, 0>>, <<4, 5>>, <<4, 7>>, <<4, 12>>, <<5, 2>>, <<5, 3>>,
            <<5, 4>>, <<5, 8>>, <<5, 9>>, <<5, 10>> >>)
    @@ ("9" :> << <<0, 1>>, <<1, 0>>, <<1, 2>>, <<2, 1>>, <<3, 1>>, <<4, 1>>, <<5,
            1>>, <<6, 1>>, <<7, 1>>, <<8, 0>>, <<8, 2>>, <<9, 1>> >>)
    @@ ("0" :> << <<0, 24>>, <<1, 22>>, <<1, 24>>, <<2, 12>>, <<2, 13>>, <<2, 20>>,
            <<2, 21>>, <<2, 34>>, <<2, 35>>, <<3, 11>>, <<3, 15>>, <<3, 20>>, <<3,
            21>>, <<3, 34>>, <<3, 35>>, <<4, 0>>, <<4, 1>>, <<4, 10>>, <<4, 16>>,
            <<4, 20>>, <<4, 21>>, <<5, 0>>, <<5, 1>>, <<5, 10>>, <<5, 14>>, <<5,
            16>>, <<5, 17>>, <<5, 22>>, <<5, 24>>, <<6, 10>>, <<6, 16>>, <<6,
            24>>, <<7, 11>>, <<7, 15>>, <<8, 12>>, <<8, 13>> >>)

PATTERNS_brain ==
    ("1" :> << <<0, -1>>, <<0, 0>>, <<0, 1>> >>)
    @@ ("2" :> << <<0, 1>>, <<1, 2>>, <<2, 0>>, <<2, 1>>, <<2, 2>> >>)
    @@ ("3" :> << <<0, 1>>, <<0, 2>>, <<1, 0>>, <<1, 3>>, <<2, 1>>, <<2, 2>>, <<3,
            0>>, <<3, 3>> >>)
    @@ ("4" :> << <<0, 1>>, <<1, 2>>, <<2, 0>>, <<2, 1>> >>)

PATTERNS_wire ==
    ("1" :> << <<0, 0>>, <<0, 1>>, <<1, 1>>, <<1, 0>> >>)
    @@ ("2" :> << <<0, 1>>, <<1, 2>>, <<2, 0>>, <<2, 1>>, <<2, 2>> >>)

PATTERNS_wire1 ==
    ("1" :> << <<0, 0>>, <<0, 1>>, <<0, 2>>, <<0, 3>> >>)
    @@ ("2" :> << <<0, 0>>, <<0, 1>>, <<0, 2>>, <<1, 2>>, <<2, 2>> >>)
    @@ ("3" :> << <<0, 1>>, <<1, 0>>, <<1, 1>>, <<1, 2>>, <<2, 1>> >>)
    @@ ("4" :> << <<0, 0>>, <<0, 1>>, <<0, 2>>, <<1, 1>>, <<2, 1>>, <<2, 0>>, <<2,
            2>> >>)

SHAPE_DEFINITIONS ==
    ("1" :> << <<0, 1>>, <<1, 2>>, <<2, 0>>, <<2, 1>>, <<2, 2>> >>)
    @@ ("2" :> << <<0, 0>>, <<0, 1>>, <<0, 2>> >>)
    @@ ("3" :> << <<0, 1>>, <<0, 2>>, <<0, 3>>, <<1, 0>>, <<1, 1>>, <<1, 2>> >>)
    @@ ("4" :> << <<0, 0>>, <<0, 1>>, <<1, 0>>, <<1, 1>>, <<2, 2>>, <<2, 3>>, <<3,
            2>>, <<3, 3>> >>)
    @@ ("5" :> << <<0, 2>>, <<0, 3>>, <<0, 4>>, <<0, 8>>, <<0, 9>>, <<0, 10>>, <<2,
            0>>, <<2, 5>>, <<2, 7>>, <<2, 12>>, <<3, 0>>, <<3, 5>>, <<3, 7>>, <<3,
            12>>, <<4, 0>>, <<4, 5>>, <<4, 7>>, <<4, 12>>, <<5, 2>>, <<5, 3>>,
            <<5, 4>>, <<5, 8>>, <<5, 9>>, <<5, 10>>, <<7, 2>>, <<7, 3>>, <<7, 4>>,
            <<7, 8>>, <<7, 9>>, <<7, 10>>, <<8, 0>>, <<8, 5>>, <<8, 7>>, <<8,
            12>>, <<9, 0>>, <<9, 5>>, <<9, 7>>, <<9, 12>>, <<10, 0>>, <<10, 5>>,
            <<10, 7>>, <<10, 12>>, <<12, 2>>, <<12, 3>>, <<12, 4>>, <<12, 8>>,
            <<12, 9>>, <<12, 10>> >>)

\* ------------------------------------------------------------- rendering
\* stdscr.addch(y, x, ch) on a window of height + UI_ROWS lines and width
\* columns: curses raises an error outside the window, and on the window's
\* lower-right corner.
addch_ok(y, x, h, w) ==
    /\ 0 <= y /\ y < h + UI_ROWS
    /\ 0 <= x /\ x < w
    /\ ~(y = h + UI_ROWS - 1 /\ x = w - 1)

\* The cells a program draws without a bounds test.
Drawn(p, g) ==
    CASE p = "life" -> g
      [] p = "brain" -> {c \in DOMAIN g : g[c] \in {"ON", "RECRUITING"}}
      [] p = "wire" -> {c \in DOMAIN g : g[c] \in {1, 2, 3}}
      [] OTHER -> {}

Drawable(p, g, h, w) == \A c \in Drawn(p, g) : addch_ok(c[1], c[2], h, w)

\* ------------------------------------------------------------ key handling
Arrows == {"UP", "DOWN", "LEFT", "RIGHT"}

\* "other" stands for '+', '-', the getch timeout and every unbound key:
\* none of them changes the modelled state (speed only sets the sleep).
Keys(p) ==
    CASE p = "life" -> Arrows \cup {" ", "s", "q", "other"} \cup DOMAIN PATTERNS_life
      [] p = "brain" -> Arrows \cup {" ", "s", "q", "other"} \cup DOMAIN PATTERNS_brain
      [] p = "wire" -> Arrows \cup {" ", "s", "q", "other"} \cup DOMAIN PATTERNS_wire
      [] p = "wire1" -> Arrows \cup {" ", "ENTER", "s", "r", "q", "other"}
                           \cup DOMAIN PATTERNS_wire1
      [] p = "dense" -> Arrows \cup {" ", "s", "q", "other"} \cup DOMAIN SHAPE_DEFINITIONS

\* The cursor after one of the four arrow branches (which every program
\* has, with the same tests).
move_y(key, cy, h) ==
    IF key = "UP" /\ cy > 0 THEN cy - 1
    ELSE IF key = "DOWN" /\ cy < h - 1 THEN cy + 1
    ELSE cy

move_x(key, cx, w) ==
    IF key = "LEFT" /\ cx > 0 THEN cx - 1
    ELSE IF key = "RIGHT" /\ cx < w - 1 THEN cx + 1
    ELSE cx

\* The coordinates cursor + offset of a pattern.
Targets(cells, cy, cx) == {<<cy + cells[i][1], cx + cells[i][2]>> : i \in 1 .. Len(cells)}

\* for dy, dx in pattern_cells: grid[(cursor_y + dy, cursor_x + dx)] = v
stamp_dict(g, cells, cy, cx, v) ==
    [c \in (DOMAIN g) \cup Targets(cells, cy, cx) |->
        IF c \in Targets(cells, cy, cx) THEN v ELSE g[c]]

\* game-of-life.py: the grid after the key (the ' ' and digit branches)
life_keys(key, g, cy, cx) ==
    IF key = " " THEN (g \ {<<cy, cx>>}) \cup ({<<cy, cx>>} \ g)
    ELSE IF key \in DOMAIN PATTERNS_life
         THEN g \cup Targets(PATTERNS_life[key], cy, cx)
    ELSE g

\* game-of-brians-brain.py
brain_keys(key, g, cy, cx) ==
    IF key = " "
    THEN Put(g, <<cy, cx>>, IF Get(g, <<cy, cx>>, "OFF") = "OFF" THEN "ON" ELSE "OFF")
    ELSE IF key \in DOMAIN PATTERNS_brain
         THEN stamp_dict(g, PATTERNS_brain[key], cy, cx, "ON")
    ELSE g

\* game-of-wireworld.py
wire_keys(key, g, cy, cx) ==
    IF key = " "
    THEN Put(g, <<cy, cx>>, (Get(g, <<cy, cx>>, 0) + 1) % 4)
    ELSE IF key \in DOMAIN PATTERNS_wire
         THEN stamp_dict(g, PATTERNS_wire[key], cy, cx, 1)
    ELSE g

sparse_keys(p, key, g, cy, cx) ==
    CASE p = "life" -> life_keys(key, g, cy, cx)
      [] p = "brain" -> brain_keys(key, g, cy, cx)
      [] p = "wire" -> wire_keys(key, g, cy, cx)

\* `not new_grid` for a set or a dict
IsEmpty(p, g) == IF p = "life" THEN g = {} ELSE DOMAIN g = {}

EmptyGrid(p, h, w) ==
    CASE p = "life" -> {}
      [] p = "dense" -> create_grid(h, w)
      [] OTHER -> EmptyDict

Sig(kind, n) == [kind |-> kind, n |-> n]

\* The number of generations a run of the model steps: MaxRun when it starts
\* from a file or on a universe larger than the small interactive ones.
StepBound == IF argv \/ height > MaxDim THEN MaxRun ELSE MaxGen

\* ------------------------------------------------------ saving and loading
\* A string is a sequence of one-character strings.
DigitChars == <<"0", "1", "2", "3", "4", "5", "6", "7", "8", "9">>

RECURSIVE str_nat(_)
str_nat(n) ==
    IF n < 10 THEN <<DigitChars[n + 1]>>
    ELSE Append(str_nat(n \div 10), DigitChars[(n % 10) + 1])

\* str(n), as the f-string formats a coordinate
py_str(n) == IF n < 0 THEN <<"-">> \o str_nat(-n) ELSE str_nat(n)

digit_value(ch) == CHOOSE d \in 0 .. 9 : DigitChars[d + 1] = ch

RECURSIVE int_nat(_)
int_nat(s) ==
    IF Len(s) = 1 THEN digit_value(s[1])
    ELSE 10 * int_nat(SubSeq(s, 1, Len(s) - 1)) + digit_value(s[Len(s)])

\* int(s) for an optional '-' followed by decimal digits
py_int(s) == IF s[1] = "-" THEN -int_nat(Tail(s)) ELSE int_nat(s)

\* s.split(',')
RECURSIVE split(_)
split(s) ==
    IF \A i \in 1 .. Len(s) : s[i] # "," THEN <<s>>
    ELSE LET i == CHOOSE i \in 1 .. Len(s) :
                      s[i] = "," /\ \A j \in 1 .. i - 1 : s[j] # ","
         IN  <<SubSeq(s, 1, i - 1)>> \o split(SubSeq(s, i + 1, Len(s)))

\* f"{k[0]},{k[1]}"
key_str(k) == py_str(k[1]) \o <<",">> \o py_str(k[2])

\* tuple(map(int, k.split(',')))
key_tuple(s) == LET parts == split(s) IN [i \in 1 .. Len(parts) |-> py_int(parts[i])]

\* save_state of the dict programs: the JSON object {"y,x": state}
save_state(g) ==
    [s \in {key_str(k) : k \in DOMAIN g} |->
        g[CHOOSE k \in DOMAIN g : key_str(k) = s]]

\* load_state of the dict programs: the keys parsed back, the values taken
\* as they are in the record
load_state(f) ==
    [k \in {key_tuple(s) : s \in DOMAIN f} |->
        f[CHOOSE s \in DOMAIN f : key_tuple(s) = k]]

\* game-of-life-deepseek.py: one line of digits per row
save_grid(g, rows, cols) ==
    [r \in 1 .. rows |-> [c \in 1 .. cols |-> py_str(g[<<r - 1, c - 1>>])[1]]]

load_grid(f) ==
    [c \in UNION {{<<r, k>> : k \in 0 .. Len(f[r + 1]) - 1} : r \in 0 .. Len(f) - 1} |->
        py_int(<<f[c[1] + 1][c[2] + 1]>>)]

\* The record a program's 's' key writes for grid g: the call sites filter
\* the default state out of brain, wire and wire1 grids, and wire1's
\* save_state filters EMPTY once more.
save_main(p, g, h, w) ==
    CASE p = "life" -> list(g)
      [] p = "brain" -> save_state(Without(g, "OFF"))
      [] p = "wire" -> save_state(Without(g, 0))
      [] p = "wire1" -> save_state(Without(Without(g, EMPTY), EMPTY))
      [] p = "dense" -> save_grid(g, h, w)

\* What main does with the record named by sys.argv[1]: the grid it
\* installs, or for wire1 "Error loading file" and sys.exit(1) when the
\* loaded dict is empty.
load_main(p, f) ==
    CASE p = "life" -> [ok |-> TRUE, grid |-> {f[i] : i \in 1 .. Len(f)}]
      [] p \in {"brain", "wire"} -> [ok |-> TRUE, grid |-> load_state(f)]
      [] p = "wire1" ->
            LET loaded_grid == load_state(f)
            IN  IF DOMAIN loaded_grid # {}
                THEN [ok |-> TRUE, grid |-> loaded_grid]
                ELSE [ok |-> FALSE, grid |-> EmptyDict]
      [] p = "dense" -> [ok |-> TRUE, grid |-> load_grid(f)]

Saved(p, g, h, w) == [done |-> TRUE, by |-> p, grid |-> g, file |-> save_main(p, g, h, w)]

\* ------------------------------------------------- the interactive programs
Init ==
    /\ prog \in Programs
    /\ height \in 1 .. MaxHeight
    /\ width \in 1 .. MaxWidth
    /\ grid = EmptyGrid(prog, height, width)
    /\ cursor_y = height \div 2
    /\ cursor_x = width \div 2
    /\ running = FALSE
    /\ status = "Editing"
    /\ history = << >>
    /\ generation = 0
    /\ signal = Sig("None", 0)
    /\ pc = "loop"
    /\ last = NoCall
    /\ edits = 0
    /\ argv = FALSE
    /\ current_place_state = WIRE
    /\ saved = NoSave
    /\ keyed = NoKey
    /\ returned = << >>

\* sparse_tick testing `new_grid in history` before `not new_grid`.
sparse_tick_repeat_first(p, g) ==
    /\ Len(history) < StepBound
    /\ history' = Append(history, g)
    /\ LET r == step(p, g, height, width)
       IN  last' = [stepped |-> TRUE, arg |-> g, after |-> r.grid, ret |-> r.new_grid]
    /\ IF \E i \in 1 .. Len(history') : history'[i] = last'.ret
       THEN /\ signal' = Sig("Cycled", Len(history'))
            /\ pc' = "exited"
            /\ grid' = last'.after
       ELSE IF IsEmpty(p, last'.ret)
       THEN /\ signal' = Sig("Extinguished", 0)
            /\ pc' = "exited"
            /\ grid' = last'.after
       ELSE /\ signal' = Sig("Continuing", 0)
            /\ pc' = "loop"
            /\ grid' = last'.ret

\* sparse_tick appending the new generation instead of a copy of the grid
\* it steps.
sparse_tick_appends_new(p, g) ==
    /\ Len(history) < StepBound
    /\ LET r == step(p, g, height, width)
       IN  last' = [stepped |-> TRUE, arg |-> g, after |-> r.grid, ret |-> r.new_grid]
    /\ history' = Append(history, last'.ret)
    /\ IF IsEmpty(p, last'.ret)
       THEN /\ signal' = Sig("Extinguished", 0)
            /\ pc' = "exited"
            /\ grid' = last'.after
       ELSE IF \E i \in 1 .. Len(history) : history[i] = last'.ret
       THEN /\ signal' = Sig("Cycled", Len(history'))
            /\ pc' = "exited"
            /\ grid' = last'.after
       ELSE /\ signal' = Sig("Continuing", 0)
            /\ pc' = "loop"
            /\ grid' = last'.ret

\* The `if running:` block of the three sparse programs, run on grid g:
\* history.append(grid.copy()); new_grid = step(...); died / repeating /
\* grid = new_grid.
sparse_tick(p, g) ==
    /\ Len(history) < StepBound
    /\ history' = Append(history, g)
    /\ LET r == step(p, g, height, width)
       IN  last' = [stepped |-> TRUE, arg |-> g, after |-> r.grid, ret |-> r.new_grid]
    /\ IF IsEmpty(p, last'.ret)
       THEN /\ signal' = Sig("Extinguished", 0)
            /\ pc' = "exited"
            /\ grid' = last'.after
       ELSE IF \E i \in 1 .. Len(history') : history'[i] = last'.ret
       THEN /\ signal' = Sig("Cycled", Len(history'))
            /\ pc' = "exited"
            /\ grid' = last'.after
       ELSE /\ signal' = Sig("Continuing", 0)
            /\ pc' = "loop"
            /\ grid' = last'.ret

\* One iteration of `while True:` in main of game-of-life.py,
\* game-of-brians-brain.py or game-of-wireworld.py, for one key.
SparseLoop(p, key) ==
    LET g1 == sparse_keys(p, key, grid, cursor_y, cursor_x)
        run1 == running \/ key = "s"
        edit == key = " " \/ key \in (Keys(p) \ (Arrows \cup {" ", "s", "q", "other"}))
    IN  /\ pc = "loop"
        /\ prog = p
        /\ Drawable(p, grid, height, width)
        /\ edit => edits < MaxEdits
        /\ edits' = IF edit THEN edits + 1 ELSE edits
        /\ cursor_y' = move_y(key, cursor_y, height)
        /\ cursor_x' = move_x(key, cursor_x, width)
        /\ running' = run1
        /\ IF key = "q"
           THEN /\ pc' = "exited"
                /\ grid' = g1
                /\ last' = NoCall
                /\ UNCHANGED <<history, signal>>
           ELSE IF run1
           THEN sparse_tick(p, g1)
           ELSE /\ grid' = g1
                /\ last' = NoCall
                /\ UNCHANGED <<history, signal, pc>>
        /\ saved' = IF key = "s" THEN Saved(p, grid, height, width) ELSE NoSave
        /\ keyed' = IF edit THEN Keyed(key, cursor_y, cursor_x, grid, g1, running) ELSE NoKey
        /\ UNCHANGED <<prog, returned, height, width, status, generation, argv, current_place_state>>

LifeMain == \E key \in Keys("life") : SparseLoop("life", key)

BrainMain == \E key \in Keys("brain") : SparseLoop("brain", key)

WireMain == \E key \in Keys("wire") : SparseLoop("wire", key)

\* The render at the top of the loop fails: curses.error ends the program.
RenderCrash ==
    /\ pc = "loop"
    /\ prog \in Sparse
    /\ ~Drawable(prog, grid, height, width)
    /\ pc' = "crashed"
    /\ UNCHANGED <<prog, returned, height, width, grid, cursor_y, cursor_x, running, status,
                   history, generation, signal, last, edits, argv, current_place_state,
                   saved, keyed>>

\* game-of-wireworld1.py ---------------------------------------------------
place_states_cycle == <<WIRE, HEAD, TAIL, EMPTY>>

\* place_states_cycle[(index(current) + 1) % 4]
next_place_state(cur) ==
    LET current_index == CHOOSE i \in 1 .. 4 : place_states_cycle[i] = cur
    IN  place_states_cycle[(current_index % 4) + 1]

\* The `if not running:` key branches that change the grid: ENTER places
\* or erases, a digit stamps the pattern cells that lie inside the grid.
wire1_keys(key, g, cy, cx, place) ==
    IF key = "ENTER"
    THEN (IF place = EMPTY
          THEN [c \in (DOMAIN g) \ {<<cy, cx>>} |-> g[c]]
          ELSE Put(g, <<cy, cx>>, place))
    ELSE IF key \in DOMAIN PATTERNS_wire1
         THEN LET T == {c \in Targets(PATTERNS_wire1[key], cy, cx) :
                           InBounds(c, height, width)}
              IN  [c \in (DOMAIN g) \cup T |-> IF c \in T THEN WIRE ELSE g[c]]
    ELSE g

\* The `if running:` block: generation += 1, step, auto-pause when the new
\* generation holds no HEAD or TAIL and neither grid is empty.
wire1_tick(g, run) ==
    /\ generation < StepBound
    /\ generation' = generation + 1
    /\ LET r == step_wire1(g, height, width)
       IN  last' = [stepped |-> TRUE, arg |-> g, after |-> r.grid, ret |-> r.new_grid]
    /\ LET has_electrons == \E c \in DOMAIN last'.ret : last'.ret[c] \in {HEAD, TAIL}
           static == ~has_electrons /\ DOMAIN last'.after # {} /\ DOMAIN last'.ret # {}
       IN  /\ running' = IF static THEN FALSE ELSE run
           /\ signal' = IF static THEN Sig("Static", generation') ELSE Sig("Continuing", 0)
    /\ grid' = last'.ret

Wire1Loop(key) ==
        LET editing == ~running
            g1 == IF editing THEN wire1_keys(key, grid, cursor_y, cursor_x, current_place_state)
                  ELSE grid
            run1 == IF key = "r" THEN ~running ELSE running
            edit == editing /\ key \in {" ", "ENTER"} \cup DOMAIN PATTERNS_wire1
        IN  /\ pc = "loop"
            /\ prog = "wire1"
            /\ edit => edits < MaxEdits
            /\ edits' = IF edit THEN edits + 1 ELSE edits
            /\ cursor_y' = IF editing THEN move_y(key, cursor_y, height) ELSE cursor_y
            /\ cursor_x' = IF editing THEN move_x(key, cursor_x, width) ELSE cursor_x
            /\ current_place_state' =
                  IF editing /\ key = " " THEN next_place_state(current_place_state)
                  ELSE current_place_state
            /\ IF key = "q"
               THEN /\ pc' = "exited"
                    /\ grid' = g1
                    /\ last' = NoCall
                    /\ UNCHANGED <<running, generation, signal>>
               ELSE IF run1
               THEN /\ wire1_tick(g1, run1)
                    /\ pc' = pc
               ELSE /\ grid' = g1
                    /\ running' = run1
                    /\ last' = NoCall
                    /\ UNCHANGED <<generation, signal, pc>>
            /\ saved' = IF editing /\ key = "s" THEN Saved("wire1", grid, height, width)
                      ELSE NoSave
            /\ keyed' = IF key \in {"ENTER"} \cup DOMAIN PATTERNS_wire1
                      THEN Keyed(key, cursor_y, cursor_x, grid, g1, running)
                      ELSE NoKey
            /\ UNCHANGED <<prog, returned, height, width, status, history, argv>>

Wire1Main == \E key \in Keys("wire1") : Wire1Loop(key)

\* game-of-life-deepseek.py ------------------------------------------------
\* The Editing branches that change the grid: ' ' flips the cursor cell, a
\* digit sets the shape cells that lie inside the grid.
dense_keys(key, g, cy, cx) ==
    IF key = " " THEN [g EXCEPT ![<<cy, cx>>] = 1 - @]
    ELSE IF key \in DOMAIN SHAPE_DEFINITIONS
         THEN LET T == {c \in Targets(SHAPE_DEFINITIONS[key], cy, cx) :
                           InBounds(c, height, width)}
              IN  [c \in DOMAIN g |-> IF c \in T THEN 1 ELSE g[c]]
    ELSE g

\* status == "Editing"
DenseEdit(key) ==
        LET edit == key = " " \/ key \in DOMAIN SHAPE_DEFINITIONS
        IN  /\ pc = "loop"
            /\ prog = "dense"
            /\ status = "Editing"
            /\ edit => edits < MaxEdits
            /\ edits' = IF edit THEN edits + 1 ELSE edits
            /\ cursor_y' = move_y(key, cursor_y, height)
            /\ cursor_x' = move_x(key, cursor_x, width)
            /\ grid' = dense_keys(key, grid, cursor_y, cursor_x)
            /\ status' = IF key = "s" THEN "Running" ELSE status
            /\ pc' = IF key = "q" THEN "exited" ELSE pc
            /\ saved' = IF key = "s" THEN Saved("dense", grid, height, width) ELSE NoSave
            /\ keyed' = IF edit THEN Keyed(key, cursor_y, cursor_x, grid, grid', FALSE) ELSE NoKey
            /\ UNCHANGED <<prog, returned, height, width, running, history, generation, signal,
                           last, argv, current_place_state>>

\* status == "Running": 'q' breaks, anything else is followed by
\* new_grid = update_grid(grid) and the comparison with grid.
DenseRun(key) ==
        /\ pc = "loop"
        /\ prog = "dense"
        /\ status = "Running"
        /\ IF key = "q"
           THEN /\ pc' = "exited"
                /\ last' = NoCall
                /\ UNCHANGED <<grid, status, generation, signal>>
           ELSE /\ generation < StepBound
                /\ LET r == update_grid(grid, height, width)
                   IN  last' = [stepped |-> TRUE, arg |-> grid, after |-> r.grid,
                                ret |-> r.new_grid]
                /\ pc' = pc
                /\ IF last'.ret = last'.after
                   THEN /\ status' = "Static"
                        /\ signal' = Sig("Static", generation)
                        /\ grid' = last'.after
                        /\ generation' = generation
                   ELSE /\ status' = status
                        /\ signal' = Sig("Continuing", 0)
                        /\ grid' = last'.ret
                        /\ generation' = generation + 1
        /\ saved' = NoSave
        /\ keyed' = IF key = " " \/ key \in DOMAIN SHAPE_DEFINITIONS
                  THEN Keyed(key, cursor_y, cursor_x, grid, grid, TRUE)
                  ELSE NoKey
        /\ UNCHANGED <<prog, returned, height, width, cursor_y, cursor_x, running, history, edits,
                       argv, current_place_state>>

DenseEditing == \E key \in Keys("dense") : DenseEdit(key)

DenseRunning == \E key \in Keys("dense") : DenseRun(key)

\* status is "Static at generation N": neither branch of the key handling
\* applies, so the loop only redraws and reads keys.
DenseStatic ==
    /\ pc = "loop"
    /\ prog = "dense"
    /\ status = "Static"
    /\ UNCHANGED vars

\* One iteration of the game-of-life-deepseek.py loop in which getch returns
\* `key`: the branch of the current status handles it.
DenseLoop(key) ==
    \/ DenseEdit(key)
    \/ DenseRun(key)
    \/ DenseStatic

Next ==
    \/ LifeMain
    \/ BrainMain
    \/ WireMain
    \/ RenderCrash
    \/ Wire1Main
    \/ DenseEditing
    \/ DenseRunning
    \/ DenseStatic

Spec == Init /\ [][Next]_vars

TypeOK ==
    /\ prog \in Programs
    /\ pc \in {"loop", "exited", "crashed"}
    /\ running \in BOOLEAN
    /\ status \in {"Editing", "Running", "Static"}
    /\ signal.kind \in {"None", "Continuing", "Extinguished", "Cycled", "Static"}
    /\ edits \in 0 .. MaxEdits
    /\ Len(history) <= StepBound
    /\ generation \in 0 .. StepBound

\* --------------------------------------------- runs started from a file
\* main with sys.argv[1]: grid = load_state(...), running = True (status =
\* "Running"), and afterwards no key is pressed: every getch times out.
\* The loaded universes hold at most MaxCells cells, all inside the grid,
\* in the states the program's save writes.
Loaded(p, h, w) ==
    CASE p = "life" -> SmallSets(h, w)
      [] p = "brain" -> UNION {[S -> {"ON", "RECRUITING"}] : S \in SmallSets(h, w)}
      [] p = "wire" -> UNION {[S -> {1, 2, 3}] : S \in SmallSets(h, w)}
      [] p = "wire1" -> UNION {[S -> {WIRE, HEAD, TAIL}] : S \in SmallSets(h, w)}
      [] p = "dense" -> {[c \in Cells(h, w) |-> IF c \in S THEN 1 ELSE 0] :
                            S \in SmallSets(h, w)}

InitRun ==
    /\ prog \in Programs
    /\ height \in 1 .. MaxDim
    /\ width \in 1 .. MaxDim
    /\ grid \in Loaded(prog, height, width)
    /\ cursor_y = height \div 2
    /\ cursor_x = width \div 2
    \* wire1 reports an error and exits when the loaded grid is empty
    /\ pc = IF prog = "wire1" /\ DOMAIN grid = {} THEN "exited" ELSE "loop"
    /\ running = (prog # "dense" /\ pc = "loop")
    /\ status = IF prog = "dense" THEN "Running" ELSE "Editing"
    /\ history = << >>
    /\ generation = 0
    /\ signal = Sig("None", 0)
    /\ last = NoCall
    /\ edits = 0
    /\ argv = TRUE
    /\ current_place_state = WIRE
    /\ saved = NoSave
    /\ keyed = NoKey
    /\ returned = << >>

NextRun ==
    \/ SparseLoop("life", "other")
    \/ SparseLoop("brain", "other")
    \/ SparseLoop("wire", "other")
    \/ Wire1Loop("other")
    \/ DenseRun("other")
    \/ DenseStatic

SpecRun == InitRun /\ [][NextRun]_vars

\* ------------------------------------------- runs followed without end
\* game-of-wireworld1.py counts generations without bound and never leaves
\* its loop by itself.  A run followed forever keeps the number modulo
\* StepBound + 1: this is the iteration of Wire1Loop, for a key that does
\* nothing, that takes the number from StepBound back to 0.
Wire1Wrap ==
    /\ pc = "loop"
    /\ prog = "wire1"
    /\ running
    /\ generation = StepBound
    /\ generation' = 0
    /\ LET r == step_wire1(grid, height, width)
       IN  last' = [stepped |-> TRUE, arg |-> grid, after |-> r.grid, ret |-> r.new_grid]
    /\ LET has_electrons == \E c \in DOMAIN last'.ret : last'.ret[c] \in {HEAD, TAIL}
           static == ~has_electrons /\ DOMAIN last'.after # {} /\ DOMAIN last'.ret # {}
       IN  /\ running' = ~static
           /\ signal' = IF static THEN Sig("Static", generation') ELSE Sig("Continuing", 0)
    /\ grid' = last'.ret
    /\ saved' = NoSave
    /\ keyed' = NoKey
    /\ UNCHANGED <<prog, returned, height, width, cursor_y, cursor_x, status, history, pc,
                   edits, argv, current_place_state>>

\* The runs of SpecRun, with every iteration of the loop eventually taken:
\* getch returns after at most its timeout (stdscr.timeout(100)) and sleep
\* returns, so an iteration that can run does run.
NextLive ==
    \/ NextRun
    \/ Wire1Wrap

\* What an iteration of a run changes.
run_vars == <<grid, history, generation, running, status, signal, pc>>

SpecLive == InitRun /\ [][NextLive]_vars /\ WF_run_vars(NextLive)

\* In a run from an in-bounds file every stored cell can be drawn.
RunDrawable == pc # "crashed" /\ Drawable(prog, grid, height, width)

\* The pattern table of a program.
Patterns(p) ==
    CASE p = "life" -> PATTERNS_life
      [] p = "brain" -> PATTERNS_brain
      [] p = "wire" -> PATTERNS_wire
      [] p = "wire1" -> PATTERNS_wire1
      [] p = "dense" -> SHAPE_DEFINITIONS

\* ------------------------------------------------ runs that only stamp
\* The interactive programs on wider grids, with the cursor wherever the
\* arrow keys can have moved it, and from then on only pattern keys, 's'
\* ('r' for wire1), 'q' and keys that do nothing.
InitStamp ==
    /\ prog \in Programs
    /\ height \in 1 .. MaxHeight
    /\ width \in 1 .. MaxStampWidth
    /\ grid = EmptyGrid(prog, height, width)
    /\ cursor_y \in 0 .. height - 1
    /\ cursor_x \in 0 .. width - 1
    /\ running = FALSE
    /\ status = "Editing"
    /\ history = << >>
    /\ generation = 0
    /\ signal = Sig("None", 0)
    /\ pc = "loop"
    /\ last = NoCall
    /\ edits = 0
    /\ argv = FALSE
    /\ current_place_state = WIRE
    /\ saved = NoSave
    /\ keyed = NoKey
    /\ returned = << >>

StampRunKeys(p) == DOMAIN Patterns(p) \cup {"s", "r", "q", "other"}

NextStamp ==
    \/ \E key \in StampRunKeys("life") \cap Keys("life") : SparseLoop("life", key)
    \/ \E key \in StampRunKeys("brain") \cap Keys("brain") : SparseLoop("brain", key)
    \/ \E key \in StampRunKeys("wire") \cap Keys("wire") : SparseLoop("wire", key)
    \/ RenderCrash
    \/ \E key \in StampRunKeys("wire1") \cap Keys("wire1") : Wire1Loop(key)
    \/ DenseEditing
    \/ DenseRunning
    \/ DenseStatic

SpecStamp == InitStamp /\ [][NextStamp]_vars

\* ------------------------------------------------ loading a saved record
\* main started with sys.argv[1] naming a record that some program's 's'
\* key wrote.  The writer is the program itself, or, among the three
\* programs whose records are JSON objects keyed by "y,x", another one.
\* The universes saved are those the writer can hold: cells up to one step
\* outside the grid for the programs that stamp without a bounds test, and
\* stored default states for brain and wire.
DictPrograms == {"brain", "wire", "wire1"}

Writers(p) == IF p \in DictPrograms THEN DictPrograms ELSE {p}

StampCells(h, w) == (-1 .. h) \X (-1 .. w)

StampSets(h, w) == {S \in SUBSET StampCells(h, w) : Cardinality(S) <= MaxSaved}

\* A cell of the Pulsar stamped with the cursor at <<0, 0>>.
PulsarCell == PATTERNS_life["8"][8]

InBoundsSets(h, w) == {S \in SUBSET Cells(h, w) : Cardinality(S) <= MaxSaved}

SavedUniverses(q, h, w) ==
    CASE q = "life" -> StampSets(h, w) \cup {S \cup {PulsarCell} : S \in InBoundsSets(h, w)}
      [] q = "brain" -> UNION {[S -> {"ON", "RECRUITING", "OFF"}] : S \in StampSets(h, w)}
      [] q = "wire" -> UNION {[S -> {0, 1, 2, 3}] : S \in StampSets(h, w)}
      [] q = "wire1" -> UNION {[S -> {WIRE, HEAD, TAIL}] : S \in InBoundsSets(h, w)}
      [] q = "dense" -> {[c \in Cells(h, w) |-> IF c \in S THEN 1 ELSE 0] :
                            S \in InBoundsSets(h, w)}

InitLoad ==
    /\ prog \in Programs
    /\ height \in 1 .. MaxDim
    /\ width \in 1 .. MaxDim
    /\ grid = EmptyGrid(prog, height, width)
    /\ cursor_y = height \div 2
    /\ cursor_x = width \div 2
    /\ running = FALSE
    /\ status = "Editing"
    /\ history = << >>
    /\ generation = 0
    /\ signal = Sig("None", 0)
    /\ pc = "start"
    /\ last = NoCall
    /\ edits = 0
    /\ argv = TRUE
    /\ current_place_state = WIRE
    /\ keyed = NoKey
    /\ returned = << >>
    /\ \E q \in Writers(prog) : \E U \in SavedUniverses(q, height, width) :
           saved = Saved(q, U, height, width)

\* if len(sys.argv) > 1: grid = load_state(sys.argv[1]); running = True
MainLoad ==
    /\ pc = "start"
    /\ LET r == load_main(prog, saved.file)
       IN  IF r.ok
           THEN /\ grid' = r.grid
                /\ running' = (prog # "dense")
                /\ status' = IF prog = "dense" THEN "Running" ELSE status
                /\ pc' = "loop"
                /\ signal' = signal
           ELSE /\ pc' = "exited"
                /\ signal' = Sig("Error loading file", 0)
                /\ UNCHANGED <<grid, running, status>>
    /\ UNCHANGED <<prog, returned, height, width, cursor_y, cursor_x, history, generation, last,
                   edits, argv, current_place_state, saved, keyed>>

NextLoad == MainLoad

SpecLoad == InitLoad /\ [][NextLoad]_vars

\* ------------------------------------- game-of-life.py on larger universes
\* game-of-life.py on universes of 5 .. MaxPatternDim rows and columns,
\* started either with a file holding the cells (5,4), (5,5), (5,6) taken
\* modulo the dimensions, or with no file and the cursor wherever the arrow
\* keys can have moved it; from then on only the Glider key '4' (once, while
\* paused), 's' and keys that do nothing.
PatternDims == 5 .. MaxPatternDim

BlinkerSeed(h, w) == {<<5 % h, 4 % w>>, <<5 % h, 5 % w>>, <<5 % h, 6 % w>>}

Glider == PATTERNS_life["4"]

InitPattern ==
    /\ prog = "life"
    /\ height \in PatternDims
    /\ width \in PatternDims
    /\ argv \in BOOLEAN
    /\ grid = IF argv THEN BlinkerSeed(height, width) ELSE {}
    /\ cursor_y \in IF argv THEN {height \div 2} ELSE 0 .. height - 1
    /\ cursor_x \in IF argv THEN {width \div 2} ELSE 0 .. width - 1
    /\ running = argv
    /\ status = "Editing"
    /\ history = << >>
    /\ generation = 0
    /\ signal = Sig("None", 0)
    /\ pc = "loop"
    /\ last = NoCall
    /\ edits = 0
    /\ current_place_state = WIRE
    /\ saved = NoSave
    /\ keyed = NoKey
    /\ returned = << >>

NextPattern ==
    \/ edits = 0 /\ ~running /\ SparseLoop("life", "4")
    \/ \E key \in {"s", "other"} : SparseLoop("life", key)
    \/ RenderCrash

SpecPattern == InitPattern /\ [][NextPattern]_vars

\* ------------------------------------------------- claims on the drivers
\* The cells of a universe that are not in the rule's default state.
NonDefault(p, U) ==
    CASE p = "life" -> U
      [] p = "brain" -> Without(U, "OFF")
      [] p = "wire" -> Without(U, 0)
      [] p = "wire1" -> Without(U, EMPTY)
      [] p = "dense" -> {c \in DOMAIN U : U[c] = 1}

NoCells(p, U) == IF p = "life" THEN U = {} ELSE DOMAIN U = {}

Extinct(p, U) ==
    IF p \in {"life", "dense"} THEN NonDefault(p, U) = {}
    ELSE DOMAIN NonDefault(p, U) = {}

\* C1: in the Life, Brian's Brain and Wireworld programs no entry of the
\* universe maps to the rule's default state (DEAD, "OFF", 0 / EMPTY) after
\* any toggles, stamps and steps from the empty universe.
C1_NoDefaultEntries ==
    (prog \in {"brain", "wire", "wire1"} /\ pc # "call") =>
        \A c \in DOMAIN grid :
            grid[c] # (CASE prog = "brain" -> "OFF" [] prog = "wire" -> 0
                         [] prog = "wire1" -> EMPTY)

\* The same for the program that filters its step result and deletes on
\* erase (game-of-wireworld1.py).
Wire1NoDefaultEntries ==
    prog = "wire1" => \A c \in DOMAIN grid : grid[c] # EMPTY

\* C7: step never mutates its input -- after a call the argument holds the
\* entries it held before, and a driver that breaks out of its loop on the
\* result still has generation N in `grid`.
C7_StepKeepsInput ==
    last.stepped =>
        /\ last.after = last.arg
        /\ (pc = "exited" => grid = last.arg)
        /\ (prog \in Sparse => history[Len(history)] = last.after)

\* A step whose result differs from its argument has returned, in a run
\* that then broke out of the loop.
C7_Witness ==
    /\ last.stepped
    /\ prog = "brain"
    /\ ~NoCells(prog, last.arg)
    /\ last.ret # last.arg
    /\ pc = "exited"

\* Generation i of a run of a sparse program whose last iteration stepped:
\* 0 .. n - 1 are the history entries, n is the new grid.
Gen(i) == IF i < Len(history) THEN history[i + 1] ELSE last.ret

\* Generation k is non-empty and repeats earlier generation m.
Repeats(k, m) ==
    /\ m < k
    /\ ~Extinct(prog, Gen(k))
    /\ NonDefault(prog, Gen(m)) = NonDefault(prog, Gen(k))

\* C8: cycle detection -- the tracker signals Cycled(n - m) at the first
\* generation n whose non-default cells are non-empty and equal those of an
\* earlier generation m, and Continuing for every generation before that.
C8_CycleDetection ==
    (last.stepped /\ prog \in Sparse) =>
        LET n == Len(history)
            first == \A k \in 1 .. n - 1 : \A m \in 0 .. k - 1 : ~Repeats(k, m)
        IN  /\ \A m \in 0 .. n - 1 :
                  (first /\ Repeats(n, m)) => signal = Sig("Cycled", n - m)
            /\ (first /\ ~Extinct(prog, Gen(n)) /\ \A m \in 0 .. n - 1 : ~Repeats(n, m))
                  => signal.kind = "Continuing"

\* What game-of-life.py does for C8's case: the repeat is found at the
\* first such generation, and the number shown is the generation n.
LifeCycleDetection ==
    (last.stepped /\ prog = "life") =>
        LET n == Len(history)
        IN  /\ \A m \in 0 .. n - 1 : Repeats(n, m) => signal = Sig("Cycled", n)
            /\ (~Extinct(prog, Gen(n)) /\ \A m \in 0 .. n - 1 : ~Repeats(n, m))
                  => signal.kind = "Continuing"

\* C9: extinction check -- in Life, Brian's Brain and Wireworld the driver
\* signals Extinguished in exactly the ticks whose new generation has no
\* non-default cell.
C9_Extinction ==
    (last.stepped /\ prog \in Sparse) =>
        (signal.kind = "Extinguished" <=> Extinct(prog, last.ret))

\* The same for game-of-life.py alone.
LifeExtinction ==
    (last.stepped /\ prog = "life") =>
        (signal.kind = "Extinguished" /\ pc = "exited" <=> Extinct(prog, last.ret))

\* The universe with no stored cells (for the dense table: no live cell).
EmptyUniverse(p, U) == IF p = "dense" THEN Extinct(p, U) ELSE NoCells(p, U)

OwnRecord == saved.done /\ saved.by = prog

\* C11: save/load round trip -- loading the record a program saved for a
\* universe U (empty, or holding negative or out-of-range coordinates)
\* installs a universe with the cells of U and reports no load failure.
C11_RoundTrip ==
    (pc # "start" /\ OwnRecord) =>
        /\ pc = "loop"
        /\ NonDefault(prog, grid) = NonDefault(prog, saved.grid)

\* The round trip of every record but the empty one of game-of-wireworld1.py.
RoundTripUnlessEmptyWire1 ==
    (pc # "start" /\ OwnRecord /\ ~(prog = "wire1" /\ NoCells(prog, saved.grid))) =>
        /\ pc = "loop"
        /\ NonDefault(prog, grid) = NonDefault(prog, saved.grid)

\* The record holds a state token of another rule: the state sets of
\* brain ("ON", "RECRUITING"), wire (1, 2, 3) and wire1 ('W', 'H', 'T') are
\* pairwise disjoint, so every entry another program wrote is foreign.
ForeignRecord == saved.done /\ saved.by # prog /\ DOMAIN saved.file # {}

\* C12: load rejects foreign state tokens -- loading a record with a state
\* token of another rule ends in an error and installs no universe.
C12_ForeignRejected ==
    (pc # "start" /\ ForeignRecord) =>
        /\ pc = "exited"
        /\ signal.kind = "Error loading file"
        /\ grid = EmptyGrid(prog, height, width)

\* What the programs do instead: the record is installed as it is.
ForeignInstalled ==
    (pc # "start" /\ ForeignRecord) =>
        /\ pc = "loop"
        /\ running
        /\ grid = load_state(saved.file)
        /\ \A c \in DOMAIN grid : grid[c] = NonDefault(saved.by, saved.grid)[c]

\* ------------------------------------------------------ claims on edits
\* The last iteration read a pattern key.
StampKey == keyed.done /\ keyed.key \in DOMAIN Patterns(prog)

\* anchor + offset for each offset of the pattern stamped
StampTargets == Targets(Patterns(prog)[keyed.key], keyed.anchor[1], keyed.anchor[2])

\* The rule's active state is stored at c.
HasActive(p, U, c) ==
    CASE p = "life" -> c \in U
      [] p = "brain" -> c \in DOMAIN U /\ U[c] = "ON"
      [] p = "wire" -> c \in DOMAIN U /\ U[c] = 1
      [] p = "wire1" -> c \in DOMAIN U /\ U[c] = WIRE
      [] p = "dense" -> c \in DOMAIN U /\ U[c] = 1

WrapCell(c, h, w) == <<c[1] % h, c[2] % w>>

\* Stored cells that share a wrapped coordinate hold the same state.
WrapsAgree(p, U, h, w) ==
    p = "life" \/ \A c, d \in DOMAIN U :
                     WrapCell(c, h, w) = WrapCell(d, h, w) => U[c] = U[d]

\* The universe with every stored cell moved to its wrapped coordinate.
Wrapped(p, U, h, w) ==
    IF p = "life" THEN {WrapCell(c, h, w) : c \in U}
    ELSE [k \in {WrapCell(c, h, w) : c \in DOMAIN U} |->
             U[CHOOSE c \in DOMAIN U : WrapCell(c, h, w) = k]]

\* The non-default cells of a universe, each seen at its wrapped coordinate.
View(p, U, h, w) ==
    IF p = "life" THEN {<<WrapCell(c, h, w), 1>> : c \in U}
    ELSE {<<WrapCell(c, h, w), U[c]>> : c \in DOMAIN NonDefault(p, U)}

\* A stamp made while paused stores every target, as it is or wrapped.
StampPlaced ==
    (StampKey /\ ~keyed.running) =>
        \A t \in StampTargets :
            \/ HasActive(prog, keyed.after, t)
            \/ HasActive(prog, keyed.after, WrapCell(t, height, width))

\* A step treats each stored cell as the cell at its wrapped coordinate.
ActsWrapped ==
    (last.stepped /\ prog \in Sparse /\ WrapsAgree(prog, last.arg, height, width)) =>
        View(prog, last.ret, height, width) =
            View(prog, step(prog, Wrapped(prog, last.arg, height, width),
                            height, width).new_grid, height, width)

\* C13: stamp wraps toroidally -- a stamp target outside the grid is still
\* placed, and stepping the stamped universe gives the generation that
\* stepping the universe with the cell at the wrapped coordinate gives.
C13_StampWraps == StampPlaced /\ ActsWrapped

\* The three sparse programs place every target, as it is.
SparseStampPlaced ==
    (StampKey /\ prog \in Sparse) =>
        \A t \in StampTargets : HasActive(prog, keyed.after, t)

\* A pattern key was read in a phase in which the program stamps.
StampDone == StampKey /\ (prog \in Sparse \/ ~keyed.running)

\* Every target holds the rule's active state after the stamp.
StampEffect ==
    StampDone => \A t \in StampTargets : HasActive(prog, keyed.after, t)

\* No entry other than the targets is added, removed or changed.
StampFrame ==
    StampDone =>
        \A c \in (Stored(prog, keyed.before) \cup Stored(prog, keyed.after)) \ StampTargets :
            /\ c \in Stored(prog, keyed.before)
            /\ c \in Stored(prog, keyed.after)
            /\ prog # "life" => keyed.after[c] = keyed.before[c]

\* C14: stamp effect and frame -- after a stamp the universe is the prior
\* universe except that every coordinate anchor + offset holds the rule's
\* active state; no other entry is added, removed or changed.
C14_StampEffectFrame == StampEffect /\ StampFrame

\* The effect on the targets that lie inside the grid.
StampEffectInBounds ==
    StampDone =>
        \A t \in StampTargets :
            InBounds(t, height, width) => HasActive(prog, keyed.after, t)

\* A toggle or stamp key read while the simulation runs leaves the grid
\* as it was.
RunningKeysIgnored == (keyed.done /\ keyed.running) => keyed.after = keyed.before

\* Each generation the driver stepped is the step of the one before it.
GenerationsChained ==
    prog \in Sparse =>
        \A i \in 1 .. Len(history) - 1 :
            history[i + 1] = step(prog, history[i], height, width).new_grid

\* C15: edits happen only while paused -- once the simulation is running,
\* toggle and stamp keys do not modify the universe, so generation N + 1
\* equals step(generation N) for every pair of consecutive generations.
C15_EditsOnlyPaused == RunningKeysIgnored /\ GenerationsChained

\* game-of-wireworld1.py and game-of-life-deepseek.py handle the editing
\* keys only while paused.
DenseProgramsIgnoreRunningKeys ==
    prog \in {"wire1", "dense"} => RunningKeysIgnored

\* ------------------------------------------------ claims on single calls
\* C16: determinism -- every call of step on a universe returns the same
\* universe, whatever the order in which its loops visit the stored cells.
C16_Deterministic ==
    \A i, j \in 1 .. Len(returned) : returned[i].new_grid = returned[j].new_grid

\* Two calls on a universe of two or more cells, visited in different
\* orders, have returned a generation that is not empty.
C16_Witness ==
    /\ Len(returned) = 2
    /\ prog \in Sparse
    /\ returned[1].order # returned[2].order
    /\ ~NoCells(prog, returned[2].new_grid)

\* ================================================== patterns of Life
\* A run of game-of-life.py started from the file of the Blinker seed and
\* left to step, with no key that edits.
BlinkerRun ==
    /\ prog = "life"
    /\ argv
    /\ edits = 0
    /\ last.stepped
    /\ history[1] = BlinkerSeed(height, width)

\* C17: Life Blinker -- in a universe of height and width at least 5 whose
\* only alive cells are (5,4), (5,5), (5,6) (taken modulo the dimensions
\* when the universe is smaller than 7), one step gives three alive cells
\* that differ from the seed, and two steps give exactly the seed again.
C17_Blinker ==
    BlinkerRun =>
        /\ Cardinality(Gen(0)) = 3
        /\ Cardinality(Gen(1)) = 3
        /\ Gen(1) # Gen(0)
        /\ Len(history) >= 2 => Gen(2) = Gen(0)

\* The second step of a Blinker run on a universe where the seed wraps.
C17_Witness ==
    /\ BlinkerRun
    /\ Len(history) = 2
    /\ width < 7
    /\ Gen(2) = BlinkerSeed(height, width)
    /\ Gen(1) # Gen(2)

\* A run of game-of-life.py whose one edit stamped the Glider at the cursor
\* into the empty universe before the first generation was stepped.
GliderRun ==
    /\ prog = "life"
    /\ ~argv
    /\ edits = 1
    /\ last.stepped
    /\ history[1] = Targets(Glider, cursor_y, cursor_x)

\* The stamped shape moved by (+1, +1), modulo the dimensions.
GliderMoved ==
    {WrapCell(<<c[1] + 1, c[2] + 1>>, height, width) :
        c \in Targets(Glider, cursor_y, cursor_x)}

\* C18: Life Glider -- stamping the Glider into an otherwise empty universe
\* of at least 5 rows and columns and stepping 4 generations yields the
\* same shape translated by (+1, +1), modulo the torus dimensions.
C18_Glider ==
    (GliderRun /\ Len(history) >= 4) =>
        {WrapCell(c, height, width) : c \in Gen(4)} = GliderMoved

\* What game-of-life.py does for C18's case: the Glider has moved by
\* (+1, +1) after 4 generations when every stamped cell is inside the grid.
GliderInBounds ==
    (GliderRun /\ Len(history) >= 4
       /\ AllInBounds(Targets(Glider, cursor_y, cursor_x), height, width)) =>
        Gen(4) = GliderMoved

\* ================================================== Brian's Brain
HasOn(U) == \E c \in DOMAIN U : U[c] = "ON"

\* C19: Brian's Brain has no step-invariant generation containing an ON
\* cell -- for every universe U with at least one ON cell, step(U) differs
\* from U, as the stored dict and as the set of its non-OFF cells.
C19_OnNeverInvariant ==
    (last.stepped /\ prog = "brain" /\ HasOn(last.arg)) =>
        /\ last.ret # last.arg
        /\ NonDefault("brain", last.ret) # NonDefault("brain", last.arg)

\* A universe whose step stores the same cells and differs only in the
\* state of the cells that were ON.
C19_Witness ==
    /\ last.stepped /\ prog = "brain"
    /\ HasOn(last.arg)
    /\ DOMAIN last.ret = DOMAIN last.arg
    /\ \A c \in DOMAIN last.arg : last.arg[c] # "ON" => last.ret[c] = last.arg[c]

\* In a run of game-of-brians-brain.py no generation containing an ON cell
\* equals the generation after it.
BrainRunNeverInvariant ==
    (prog = "brain" /\ last.stepped) =>
        \A i \in 0 .. Len(history) - 1 : HasOn(Gen(i)) => Gen(i + 1) # Gen(i)

\* ================================================== termination
\* The program has reported the end of the run and steps no more: it left
\* the loop after "died"/"stopped" or "repeating shape", or (counted here
\* as such a report) it shows "static" and is paused.
Stopped ==
    \/ pc = "exited" /\ signal.kind \in {"Extinguished", "Cycled"}
    \/ signal.kind = "Static" /\ (prog = "wire1" => ~running)
                              /\ (prog = "dense" => status = "Static")

\* C20: every run terminates with a signal -- from any in-bounds starting
\* universe, with no edits after the start, the stepping loop of each
\* program eventually signals Extinguished or Cycled and stops stepping.
C20_Terminates == (pc = "loop") ~> Stopped

\* What the three programs with a history do for C20's case: their runs
\* end with "died"/"stopped" or "repeating shape".
SparseTerminates == (pc = "loop" /\ prog \in Sparse) ~> Stopped

\* game-of-life-deepseek.py on these universes ends with "Static".
DenseTerminates == (pc = "loop" /\ prog = "dense") ~> Stopped

\* ================================================== frontier and full scan
\* The state of cell c in universe U, by the names of each rule.
CellState(p, U, c) ==
    CASE p = "life" -> IF c \in U THEN "ALIVE" ELSE "DEAD"
      [] p = "brain" -> BrainState(U, c)
      [] p \in {"wire", "wire1"} -> WireState(p, U, c)

DefaultState(p) ==
    CASE p = "life" -> "DEAD"
      [] p = "brain" -> "OFF"
      [] p \in {"wire", "wire1"} -> EMPTY

\* The rule applied to one cell: its next state from its own state and the
\* states in its 8 toroidal neighbour slots.
RuleAt(p, U, c, h, w) ==
    CASE p = "life" ->
            IF \/ (c \in U /\ AliveCount(p, U, c, h, w) \in {2, 3})
               \/ (c \notin U /\ AliveCount(p, U, c, h, w) = 3)
            THEN "ALIVE" ELSE "DEAD"
      [] p = "brain" ->
            (CASE BrainState(U, c) = "ON" -> "RECRUITING"
               [] BrainState(U, c) = "RECRUITING" -> "OFF"
               [] OTHER -> IF OnCount(U, c, h, w) = 2 THEN "ON" ELSE "OFF")
      [] p \in {"wire", "wire1"} ->
            (CASE WireState(p, U, c) = HEAD -> TAIL
               [] WireState(p, U, c) = TAIL -> EMPTY
               [] WireState(p, U, c) = WIRE ->
                     IF HeadCount(p, U, c, h, w) \in {1, 2} THEN HEAD ELSE WIRE
               [] OTHER -> EMPTY)

\* The stored cells of U and all of their neighbours.
Frontier(p, U, h, w) ==
    Stored(p, U) \cup {Torus(c, i, h, w) : c \in Stored(p, U), i \in 1 .. 8}

\* C21: sparse frontier equals dense scan -- for Life, Brian's Brain and
\* Wireworld and every in-bounds universe, the generation step returns
\* gives every one of the height x width cells the state the rule gives
\* it, holds no cell outside the grid, and holds non-default states only
\* at stored cells and their neighbours: a default cell with no stored
\* neighbour keeps the default state.
C21_FrontierEqualsScan ==
    (last.stepped /\ prog \in {"life", "brain", "wire1"}) =>
        /\ \A c \in Cells(height, width) :
              CellState(prog, last.ret, c) = RuleAt(prog, last.arg, c, height, width)
        /\ AllInBounds(Stored(prog, last.ret), height, width)
        /\ \A c \in Cells(height, width) \ Frontier(prog, last.arg, height, width) :
              /\ RuleAt(prog, last.arg, c, height, width) = DefaultState(prog)
              /\ CellState(prog, last.ret, c) = DefaultState(prog)

\* On a grid one or two rows high, a cell that was not stored got a
\* non-default state from its neighbours while another cell, away from
\* every stored cell, kept the default state.
C21_Witness ==
    /\ last.stepped /\ prog \in {"life", "brain"}
    /\ \E c \in Frontier(prog, last.arg, height, width) \ Stored(prog, last.arg) :
          CellState(prog, last.ret, c) # DefaultState(prog)
    /\ \E c \in Cells(height, width) \ Frontier(prog, last.arg, height, width) :
          CellState(prog, last.ret, c) = DefaultState(prog)

\* ================================================== history
\* The universe an iteration steps: the grid after the iteration's key.
SteppedNow == IF keyed'.done THEN keyed'.after ELSE grid

\* One iteration as the history sees it (an iteration whose render fails
\* makes no call of step).
HistoryStep ==
    prog \in {"life", "brain"} =>
        /\ Len(history') >= Len(history)
        /\ \A i \in 1 .. Len(history) : history'[i] = history[i]
        /\ (last'.stepped /\ pc' # "crashed") =>
              /\ history' = Append(history, SteppedNow)
              /\ last'.arg = SteppedNow
              /\ last'.after = SteppedNow
        /\ (~last'.stepped \/ pc' = "crashed") => history' = history

\* C22: history snapshots are immutable and ordered -- in game-of-life.py
\* and game-of-brians-brain.py every iteration leaves the entries already
\* stored as they are; an iteration that steps appends exactly one entry,
\* the generation it steps as it is when stepped (and as it still is after
\* the call), and any other iteration appends nothing, so the number of
\* entries is the number of steps taken.
C22_HistoryKept == [][HistoryStep]_vars

\* A run that is Continuing after two steps, the second on a universe
\* edited while running, with the first entry still in place.
C22_Witness ==
    /\ prog \in {"life", "brain"}
    /\ signal.kind = "Continuing"
    /\ Len(history) = 2
    /\ keyed.done /\ keyed.running
    /\ history[2] = keyed.after
    /\ history[1] # history[2]

\* ---------------------------------------------------------------- C23
\* An iteration of the game-of-wireworld1.py loop that stepped.
Wire1Stepped == prog = "wire1" /\ pc = "loop" /\ running /\ last'.stepped /\ generation' # generation

HasElectrons(g) == \E c \in DOMAIN g : g[c] \in {HEAD, TAIL}

AutoPauseStep == Wire1Stepped => (~HasElectrons(grid') => ~running')

\* C23: while game-of-wireworld1.py runs, every iteration whose step produces
\* a generation with no HEAD and no TAIL cell sets running to false in that
\* same iteration.
C23_AutoPause == [][AutoPauseStep]_vars

NoPauseStep == Wire1Stepped => (HasElectrons(grid') => running')

\* The other half of C23: an iteration whose new generation holds a HEAD or a
\* TAIL never pauses the run.
C23_NoPauseWithElectrons == [][NoPauseStep]_vars

\* The auto-pause does happen when both generations are non-empty.
C23_PauseReached ==
    /\ prog = "wire1"
    /\ last.stepped
    /\ ~running
    /\ signal.kind = "Static"
    /\ HasElectrons(last.arg)

\* ---------------------------------------------------------------- C24
\* C24: in game-of-life.py, game-of-brians-brain.py and game-of-wireworld.py,
\* whenever the loop is about to render, every stored coordinate lies in
\* [0, height) x [0, width).
C24_StoredInGrid ==
    (prog \in Sparse /\ pc = "loop") =>
        \A c \in Stored(prog, grid) : InBounds(c, height, width)

\* Steps alone keep the stored cells in the grid: a universe that is in
\* bounds before a call of step is in bounds after it.
StepStaysInGridStep ==
    (prog \in Sparse /\ last'.stepped /\ pc' # "crashed"
        /\ \A c \in Stored(prog, last'.arg) : InBounds(c, height, width)) =>
        \A c \in Stored(prog, last'.ret) : InBounds(c, height, width)

C24_StepsStayInGrid == [][StepStaysInGridStep]_vars

\* ---------------------------------------------------------------- C25
\* The iteration of game-of-life-deepseek.py that reads 'q' leaves the loop.
QuitEnds == DenseLoop("q") /\ pc' = "exited"

\* C25: in every reachable state of game-of-life-deepseek.py inside its main
\* loop (Editing, Running or Static), a 'q' key press ends the loop.
C25_QuitWorks == (prog = "dense" /\ pc = "loop") => ENABLED QuitEnds

\* While the status is Editing or Running, 'q' does end the loop.
C25_QuitWorksBeforeStatic ==
    (prog = "dense" /\ pc = "loop" /\ status # "Static") => ENABLED QuitEnds

C25_QuitReached == prog = "dense" /\ pc = "exited" /\ status = "Running"

\* ---------------------------------------------------------------- C26
\* The non-empty cells of a game-of-wireworld1.py universe.
WireCells(g) == {c \in DOMAIN g : g[c] # EMPTY}

\* A call of the dense Wireworld step never returns more non-empty cells
\* than it was given.
NonEmptyStep ==
    (prog = "wire1" /\ last'.stepped) =>
        Cardinality(WireCells(last'.ret)) <= Cardinality(WireCells(last'.arg))

\* A universe with no HEAD and no TAIL is a fixed point of step.
SettledStep ==
    (prog = "wire1" /\ last'.stepped /\ ~HasElectrons(last'.arg)) =>
        last'.ret = last'.arg

ElectronsGone == prog = "wire1" /\ ~HasElectrons(grid)

\* C26: under the step of game-of-wireworld1.py the number of non-empty
\* cells never increases, every run reaches a generation with no HEAD and
\* no TAIL after finitely many steps, and a step of such a generation
\* returns it unchanged.
C26_ElectronsDieOut ==
    /\ [][NonEmptyStep]_vars
    /\ [][SettledStep]_vars
    /\ (prog = "wire1") ~> ElectronsGone

\* Two steps have used up an electron and left a wire behind.
C26_Witness ==
    /\ prog = "wire1"
    /\ last.stepped
    /\ generation >= 2
    /\ HasElectrons(last.arg)
    /\ ~HasElectrons(grid)
    /\ WireCells(grid) # {}

\* ---------------------------------------------------------------- C27
\* A game-of-wireworld.py universe written with the states of
\* game-of-wireworld1.py: 0/absent -> EMPTY (not stored), 1 -> WIRE,
\* 2 -> HEAD, 3 -> TAIL.
AsWire1(U) ==
    LET S == {c \in DOMAIN U : U[c] # 0}
    IN  [c \in S |-> WireState("wire", U, c)]

\* C27: for every in-bounds universe, the step of game-of-wireworld.py and
\* the step of game-of-wireworld1.py return the same generation under the
\* correspondence 0/absent <-> EMPTY, 1 <-> WIRE, 2 <-> HEAD, 3 <-> TAIL.
C27_SameTransition ==
    (prog = "wire" /\ last.stepped
        /\ \A c \in DOMAIN last.arg : InBounds(c, height, width)) =>
        \A c \in Cells(height, width) :
            WireState("wire", last.ret, c) =
                WireState("wire1", step_wire1(AsWire1(last.arg), height, width).new_grid, c)

\* What the two steps do agree on: the cells that hold a HEAD or a TAIL.
C27_SameOnElectrons ==
    (prog = "wire" /\ last.stepped
        /\ \A c \in DOMAIN last.arg : InBounds(c, height, width)) =>
        \A c \in Cells(height, width) :
            WireState("wire", last.arg, c) \in {HEAD, TAIL} =>
                WireState("wire", last.ret, c) =
                    WireState("wire1", step_wire1(AsWire1(last.arg), height, width).new_grid, c)

\* ---------------------------------------------------------------- C28
\* C28: every coordinate returned by the step of game-of-life.py lies in
\* [0, height) x [0, width), whatever coordinates the universe it was given
\* stores (negative and out-of-range ones included).
C28_StepInBounds ==
    (prog = "life" /\ last.stepped) =>
        \A c \in last.ret : InBounds(c, height, width)

\* A step of a universe that stores a negative coordinate and one beyond the
\* grid, returning live cells.
C28_Witness ==
    /\ prog = "life"
    /\ last.stepped
    /\ \E c \in last.arg : c[1] < 0 \/ c[2] < 0
    /\ \E c \in last.arg : c[1] >= height \/ c[2] >= width
    /\ last.ret # {}

\* ---------------------------------------------------------------- C29
\* The iteration handles a SPACE key (and is not a failed render).
Toggles == keyed'.done /\ keyed'.key = " " /\ edits' = edits + 1

\* The cell is absent from U, or stored in its active state.
AbsentOrActive(p, U, c) ==
    \/ c \notin Stored(p, U)
    \/ p = "life"
    \/ p = "brain" /\ U[c] = "ON"

\* The second of two toggles of the same coordinate, with no step after the
\* first: the universe is again what it was before the first.
ToggleTwiceStep ==
    (/\ prog \in {"life", "brain"}
     /\ keyed.done /\ keyed.key = " " /\ ~last.stepped
     /\ Toggles /\ keyed'.anchor = keyed.anchor
     /\ AbsentOrActive(prog, keyed.before, keyed.anchor)) =>
        keyed'.after = keyed.before

\* A toggle leaves every other coordinate as it is.
ToggleFrameStep ==
    (prog \in Sparse /\ Toggles) =>
        \A c \in (Stored(prog, keyed'.before) \cup Stored(prog, keyed'.after))
                     \ {keyed'.anchor} :
            /\ c \in Stored(prog, keyed'.before)
            /\ c \in Stored(prog, keyed'.after)
            /\ prog # "life" => keyed'.after[c] = keyed'.before[c]

\* C29: in game-of-life.py and game-of-brians-brain.py, toggling the same
\* coordinate twice with no step in between leaves the universe exactly as
\* it was before (for a cell that was absent or active), and a toggle
\* changes no entry at another coordinate.
C29_ToggleTwice == [][ToggleTwiceStep /\ ToggleFrameStep]_vars

\* The two parts of C29 that hold: the frame of a toggle in the three sparse
\* programs, and the double toggle of game-of-life.py.
C29_ToggleFrame == [][ToggleFrameStep]_vars

LifeToggleTwiceStep == prog = "life" => ToggleTwiceStep

C29_LifeToggleTwice == [][LifeToggleTwiceStep]_vars

\* The sparse Wireworld part of C29, on the toggle itself: four toggles of
\* the cursor cell, when it is absent or holds a wire, give back the
\* universe.
C29_WireFourToggles ==
    (prog = "wire" /\ pc = "loop"
        /\ Get(grid, <<cursor_y, cursor_x>>, 1) = 1) =>
        LET T(g) == wire_keys(" ", g, cursor_y, cursor_x)
        IN  T(T(T(T(grid)))) = grid
====
